---------------------------- MODULE Spec2Model ----------------------------
(***************************************************************************)
(* StockFlow: the product-intake transaction (src/p1_fix.py,               *)
(* create_product) and the low-stock alert engine (src/api.py,             *)
(* get_low_stock_alerts), over one catalog store.                          *)
(*                                                                         *)
(* The store is the only shared state.  Each handler is cut into steps at  *)
(* its store round trips, so that concurrent requests and external         *)
(* change-log writers interleave exactly where the code lets them.         *)
(***************************************************************************)
EXTENDS Integers, Sequences, FiniteSets, Bags, TLC

VARIABLES
    products,        \* committed Product rows
    inventory,       \* committed Inventory rows
    log,             \* InvChange rows: a bag, the log is append-only
    nextProductId,   \* the Product primary-key sequence
    nextInventoryId, \* the Inventory primary-key sequence
    now,             \* the wall clock (datetime.utcnow), in days
    pc,              \* create_product: position of each request
    payload,         \* create_product: the request body
    vals,            \* create_product: the coerced locals (lines 32-38)
    txn,             \* create_product: rows pending in db.session
    pid,             \* create_product: product.id once flushed
    resp,            \* create_product: the response returned
    apc,             \* get_low_stock_alerts: position
    acompany,        \* get_low_stock_alerts: company_id
    cutoff,          \* get_low_stock_alerts: thirty_days_ago
    cands,           \* get_low_stock_alerts: low_stock_inventories
    idx,             \* get_low_stock_alerts: position of the for loop
    cnt,             \* get_low_stock_alerts: recent_sales_count
    avg,             \* get_low_stock_alerts: avg_daily_sales
    alerts,          \* get_low_stock_alerts: alerts
    aresp            \* get_low_stock_alerts: the response returned

storeVars  == <<products, inventory, log, nextProductId, nextInventoryId, now>>
intakeVars == <<pc, payload, vals, txn, pid, resp>>
alertVars  == <<apc, acompany, cutoff, cands, idx, cnt, avg, alerts, aresp>>
vars       == <<storeVars, intakeVars, alertVars>>

---------------------------------------------------------------------------
(* Values *)

\* Python's None / JSON null, and str(n) of an integer key: a string, never
\* the integer itself.
PyNone == <<>>
Str(n) == <<"str", n>>
Text(s) == <<"text", s>>

\* Python truthiness of an optional integer key held as a set of at most one
\* id: None and 0 are both falsy.
Truthy(ref) == \E x \in ref : x # 0

\* The window of "recent sales activity", in days.
WindowDays == 30

\* days_until_stockout when there is no positive average.
Sentinel == 999

\* How many InvChange rows the external writers append in one run.
MaxLog == 3

---------------------------------------------------------------------------
(* The catalog the store starts with.  Primary keys are generated, so they  *)
(* are positive.                                                            *)

Companies == {1, 2, 3}

\* company ids a caller may ask for; 4 resolves to no Company
CompanyIds == {1, 2, 3, 4}

Warehouses ==
    { [id |-> 1, name |-> "Main",   company_id |-> 1],
      [id |-> 2, name |-> "Annex",  company_id |-> 1],
      [id |-> 3, name |-> "Depot",  company_id |-> 2] }

ProductTypes ==
    { [id |-> 1, low_stock_threshold |-> 6],
      [id |-> 2, low_stock_threshold |-> 3] }

Suppliers ==
    { [id |-> 1, name |-> "Acme", contact_email |-> Text("acme@example.com")] }

\* type_id and supplier_id are nullable references: the empty set is NULL.
\* Product 3 names a supplier that has no row.
CatalogProducts ==
    { [id |-> 1, name |-> "Bolt",   sku |-> "K1", price |-> <<199, 2>>,
       type_id |-> {1}, supplier_id |-> {1}],
      [id |-> 2, name |-> "Nut",    sku |-> "K2", price |-> <<5, 1>>,
       type_id |-> {2}, supplier_id |-> {}],
      [id |-> 3, name |-> "Washer", sku |-> "K3", price |-> <<1, 0>>,
       type_id |-> {1}, supplier_id |-> {7}] }

CatalogInventory ==
    { [id |-> 1, product_id |-> 1, warehouse_id |-> 1, quantity |-> 5],
      [id |-> 2, product_id |-> 3, warehouse_id |-> 2, quantity |-> 2],
      [id |-> 3, product_id |-> 2, warehouse_id |-> 3, quantity |-> 1],
      [id |-> 4, product_id |-> 2, warehouse_id |-> 1, quantity |-> 3] }

\* The instants the clock moves through: an entry written at 0 lies exactly
\* on the window's lower bound at 30 and outside the window at 31.
Clock == {0, 30, 31}

---------------------------------------------------------------------------
(* create_product: payloads *)

Reqs == {"r1", "r2"}

required_product_fields   == <<"name", "sku", "price">>
required_inventory_fields == <<"warehouse_id", "initial_quantity">>

Range(s) == {s[i] : i \in DOMAIN s}
RequiredFields == Range(required_product_fields) \cup Range(required_inventory_fields)

\* Decimal(str(v)) and int(v), on the JSON literals the payloads use.  A
\* literal outside the table does not parse.
DecimalLiterals == ("19.99" :> <<1999, 2>>)
IntLiterals == ("-1" :> -1) @@ ("0" :> 0) @@ ("1" :> 1) @@ ("2" :> 2) @@ ("9" :> 9)

GoodFields ==
    ("name" :> "Widget") @@ ("sku" :> "A") @@ ("price" :> "19.99")
      @@ ("warehouse_id" :> "1") @@ ("initial_quantity" :> "2")

Restrict(f, D) == [x \in D |-> f[x]]

\* JSON objects lacking any subset of the required fields.
PresencePayloads ==
    { [kind |-> "object", fields |-> Restrict(GoodFields, D)] :
        D \in SUBSET RequiredFields }

\* JSON objects holding every field, over good and bad values.  Warehouse 9
\* has no row; "x" and "abc" are not numeric.
ValuePayloads ==
    { [kind |-> "object",
       fields |-> ("name" :> "Widget") @@ ("sku" :> s) @@ ("price" :> p)
                    @@ ("warehouse_id" :> w) @@ ("initial_quantity" :> q)] :
        s \in {"A", "K1"}, p \in {"19.99", "abc"},
        w \in {"1", "9", "x"}, q \in {"-1", "0", "2", "x"} }

\* A body that is not JSON, a JSON scalar (5, null, true), an empty JSON
\* array, and the objects.
Payloads ==
    { [kind |-> "notjson", fields |-> <<>>],
      [kind |-> "scalar",  fields |-> <<>>],
      [kind |-> "array",   fields |-> <<>>] }
      \cup PresencePayloads \cup ValuePayloads

NoPayload == [kind |-> "none", fields |-> <<>>]

NoVals == [name |-> "", sku |-> "", price |-> <<0, 0>>,
           warehouse_id |-> 0, quantity |-> 0]

EmptyTxn == [product |-> {}, inventory |-> {}]

\* status 0: no response was returned
NoResp == [status |-> 0, msg |-> "none", fields |-> <<>>, detail |-> <<>>,
           product_id |-> PyNone]

\* fields: the field names a message lists; detail: the {e} it quotes
Response(status, msg) ==
    [status |-> status, msg |-> msg, fields |-> <<>>, detail |-> <<>>,
     product_id |-> PyNone]

---------------------------------------------------------------------------
(* create_product: validation (lines 13-49).  It touches no store, so it is  *)
(* one step.                                                                *)

\* `field in data`: the keys of a JSON object, the elements of a JSON array.
Present(data) == IF data.kind = "object" THEN DOMAIN data.fields ELSE {}

\* [field for field in required if field not in data]
MissingFieldsFirstOnly(required, data) ==
    LET all == SelectSeq(required, LAMBDA f : f \notin Present(data))
    IN  IF all = <<>> THEN <<>> ELSE <<all[1]>>

MissingFields(required, data) ==
    SelectSeq(required, LAMBDA f : f \notin Present(data))

\* initial_quantity < 0
QuantityRuleOff(q) == FALSE

NegativeQuantity(q) == q < 0

\* The outcome of lines 13-49 on a payload: the position the request is left
\* at ("check": go on to the uniqueness check; "done": a response was
\* returned; "raised": an exception left the handler), the response and the
\* coerced locals.
Validate(data) ==
    LET out(next, r, v) == [next |-> next, resp |-> r, vals |-> v]
        mp == MissingFields(required_product_fields, data)
        mi == MissingFields(required_inventory_fields, data)
        f  == data.fields
    IN  IF data.kind = "notjson"
          THEN out("done", Response(400, "not_json"), NoVals)
        ELSE IF data.kind = "scalar"
          \* line 22: `field not in data` on an int, None or bool is a
          \* TypeError, outside every try block
          THEN out("raised", NoResp, NoVals)
        ELSE IF mp # <<>>
          THEN out("done", [Response(400, "missing_product") EXCEPT !.fields = mp], NoVals)
        ELSE IF mi # <<>>
          THEN out("done", [Response(400, "missing_inventory") EXCEPT !.fields = mi], NoVals)
        ELSE IF f["price"] \notin DOMAIN DecimalLiterals
          \* decimal.InvalidOperation is no ValueError: line 47 catches it
          THEN out("done", Response(400, "input_error"), NoVals)
        ELSE IF f["warehouse_id"] \notin DOMAIN IntLiterals
          THEN out("done", Response(400, "invalid_type"), NoVals)
        ELSE IF f["initial_quantity"] \notin DOMAIN IntLiterals
          THEN out("done", Response(400, "invalid_type"), NoVals)
        ELSE IF NegativeQuantity(IntLiterals[f["initial_quantity"]])
          THEN out("done", Response(400, "negative_quantity"), NoVals)
        ELSE out("check", NoResp,
                 [name |-> f["name"], sku |-> f["sku"],
                  price |-> DecimalLiterals[f["price"]],
                  warehouse_id |-> IntLiterals[f["warehouse_id"]],
                  quantity |-> IntLiterals[f["initial_quantity"]]])

\* The request arrives and lines 13-49 run.
Start(r, bodies) ==
    /\ pc[r] = "idle"
    /\ \E data \in bodies :
         LET v == Validate(data)
         IN  /\ payload' = [payload EXCEPT ![r] = data]
             /\ pc' = [pc EXCEPT ![r] = v.next]
             /\ resp' = [resp EXCEPT ![r] = v.resp]
             /\ vals' = [vals EXCEPT ![r] = v.vals]
    /\ UNCHANGED <<txn, pid, storeVars, alertVars>>

---------------------------------------------------------------------------
(* create_product: the store's errors *)

\* The text of an IntegrityError, as the driver words it.  The handler reads
\* it with `in`, so a text is the sequence of its phrases.
Dialects == {"mysql", "sqlite", "postgresql"}

UniqueViolationText(d) ==
    CASE d = "mysql"      -> <<"1062", "Duplicate entry", "for key 'sku'">>
      [] d = "sqlite"     -> <<"UNIQUE constraint failed", "product.sku">>
      [] d = "postgresql" -> <<"duplicate key value violates unique constraint",
                               "product_sku_key">>

OtherViolationText(d) ==
    CASE d = "mysql"      -> <<"1452", "Cannot add or update a child row",
                               "a foreign key constraint fails">>
      [] d = "sqlite"     -> <<"FOREIGN KEY constraint failed">>
      [] d = "postgresql" -> <<"insert or update on table",
                               "violates foreign key constraint">>

\* phrase in str(e)
Contains(text, phrase) == \E i \in DOMAIN text : text[i] = phrase

\* lines 89-93
IntegrityResponse(text) ==
    IF Contains(text, "Duplicate entry") \/ Contains(text, "UNIQUE constraint failed")
      THEN [Response(409, "integrity_duplicate") EXCEPT !.detail = text]
      ELSE [Response(400, "integrity") EXCEPT !.detail = text]

\* lines 89-99: the response to an exception raised inside the write block
WriteErrorResponse(fault, text) ==
    CASE fault = "integrity"   -> IntegrityResponse(text)
      [] fault = "operational" -> Response(500, "db_failed")
      [] fault = "other"       -> Response(500, "unexpected")

---------------------------------------------------------------------------
(* create_product: the uniqueness check (lines 53-60) *)

\* Product.query.filter_by(sku=product_sku).first(): committed rows only
ExistingProduct(sku) == {p \in products : p.sku = sku}

\* The query answers, or the store raises OperationalError, or it raises some
\* other SQLAlchemyError (TimeoutError of the pool, InterfaceError, ...),
\* which line 58 does not catch.
PreCheck(r) ==
    /\ pc[r] = "check"
    /\ \E fault \in {"none", "operational", "other"} :
         /\ pc' = [pc EXCEPT ![r] =
                     IF fault = "other" THEN "raised"
                     ELSE IF fault = "operational" THEN "done"
                     ELSE IF ExistingProduct(vals[r].sku) # {} THEN "done"
                     ELSE "write"]
         /\ resp' = [resp EXCEPT ![r] =
                     IF fault = "operational" THEN Response(500, "db_error_check")
                     ELSE IF fault = "none" /\ ExistingProduct(vals[r].sku) # {}
                       THEN Response(409, "sku_exists")
                     ELSE NoResp]
    /\ UNCHANGED <<payload, vals, txn, pid, storeVars, alertVars>>

---------------------------------------------------------------------------
(* create_product: the write block (lines 64-99) *)

\* Product(name=..., sku=..., price=...): no type and no supplier are given
NewProductDefaultType(id, v) ==
    [id |-> id, name |-> v.name, sku |-> v.sku, price |-> v.price,
     type_id |-> {1}, supplier_id |-> {}]

NewProduct(id, v) ==
    [id |-> id, name |-> v.name, sku |-> v.sku, price |-> v.price,
     type_id |-> {}, supplier_id |-> {}]

\* Inventory(product_id=product.id, warehouse_id=..., quantity=...)
NewInventory(id, product_id, v) ==
    [id |-> id, product_id |-> product_id,
     warehouse_id |-> v.warehouse_id, quantity |-> v.quantity]

\* The store's unique index on Product.sku: the INSERT of a second row with
\* a committed sku is refused, and it waits while another transaction holds
\* an uncommitted row with that sku.
DuplicateSku(sku) == \E p \in products : p.sku = sku

SkuLocked(r, sku) ==
    \E o \in Reqs \ {r} : \E p \in txn[o].product : p.sku = sku

\* db.session.flush() sends the INSERT inside the open transaction: the
\* committed Product collection is as before.
FlushedProductsCommitted(row) == products \cup {row}

FlushedProducts(row) == products

\* db.session.rollback(): the pending rows are gone
RolledBack(t) == EmptyTxn

\* lines 66-73: add the Product and flush.
Flush(r) ==
    /\ pc[r] = "write"
    /\ ~SkuLocked(r, vals[r].sku)
    /\ \E fault \in {"none", "integrity", "operational", "other"}, d \in Dialects :
         LET row  == NewProduct(nextProductId, vals[r])
             dup  == DuplicateSku(row.sku)
             text == IF dup THEN UniqueViolationText(d) ELSE OtherViolationText(d)
             kind == IF fault = "none" /\ dup THEN "integrity" ELSE fault
         IN  IF kind = "none"
               THEN /\ txn' = [txn EXCEPT ![r].product = {row}]
                    /\ pid' = [pid EXCEPT ![r] = row.id]
                    /\ nextProductId' = nextProductId + 1
                    /\ products' = FlushedProducts(row)
                    /\ pc' = [pc EXCEPT ![r] = "commit"]
                    /\ resp' = resp
               ELSE /\ txn' = [txn EXCEPT ![r] = RolledBack(txn[r])]
                    /\ pc' = [pc EXCEPT ![r] = "done"]
                    /\ resp' = [resp EXCEPT ![r] = WriteErrorResponse(kind, text)]
                    /\ UNCHANGED <<pid, nextProductId, products>>
    /\ UNCHANGED <<payload, vals, inventory, log, nextInventoryId, now, alertVars>>

KnownWarehouse(w) == \E x \in Warehouses : x.id = w

\* lines 76-87: add the Inventory and commit.  The commit sends the
\* Inventory INSERT and ends the transaction; a store that enforces the
\* foreign key refuses a warehouse_id that has no row.
Commit(r) ==
    /\ pc[r] = "commit"
    /\ \E fault \in {"none", "integrity", "operational", "other"}, d \in Dialects :
         LET row == NewInventory(nextInventoryId, pid[r], vals[r])
         IN  /\ fault = "integrity" => ~KnownWarehouse(row.warehouse_id)
             /\ IF fault = "none"
                  THEN /\ products' = products \cup txn[r].product
                       /\ inventory' = inventory \cup {row}
                       /\ nextInventoryId' = nextInventoryId + 1
                       /\ txn' = [txn EXCEPT ![r] = EmptyTxn]
                       /\ resp' = [resp EXCEPT ![r] =
                                     [Response(201, "created")
                                        EXCEPT !.product_id = Str(pid[r])]]
                  ELSE /\ txn' = [txn EXCEPT ![r] = RolledBack(txn[r])]
                       /\ resp' = [resp EXCEPT ![r] =
                                     WriteErrorResponse(fault, OtherViolationText(d))]
                       /\ UNCHANGED <<products, inventory, nextInventoryId>>
    /\ pc' = [pc EXCEPT ![r] = "done"]
    /\ UNCHANGED <<payload, vals, pid, log, nextProductId, now, alertVars>>

---------------------------------------------------------------------------
(* Initial state and the intake specification *)

Init ==
    /\ products = CatalogProducts
    /\ inventory = CatalogInventory
    /\ log = EmptyBag
    /\ nextProductId = 4
    /\ nextInventoryId = 5
    /\ now = 0
    /\ pc = [r \in Reqs |-> "idle"]
    /\ payload = [r \in Reqs |-> NoPayload]
    /\ vals = [r \in Reqs |-> NoVals]
    /\ txn = [r \in Reqs |-> EmptyTxn]
    /\ pid = [r \in Reqs |-> 0]
    /\ resp = [r \in Reqs |-> NoResp]
    /\ apc = "idle"
    /\ acompany = 0
    /\ cutoff = 0
    /\ cands = <<>>
    /\ idx = 0
    /\ cnt = 0
    /\ avg = [num |-> 0, den |-> 1]
    /\ alerts = <<>>
    /\ aresp = [status |-> 0, total_alerts |-> 0]

\* Two create_product requests, interleaved at their store round trips.
NextIntake ==
    \E r \in Reqs :
        \/ Start(r, Payloads)
        \/ PreCheck(r)
        \/ Flush(r)
        \/ Commit(r)

SpecIntake == Init /\ [][NextIntake]_vars

---------------------------------------------------------------------------
(* The environment of the alert engine: external stock mutations append     *)
(* InvChange rows stamped with the clock, and time passes.  No row is ever  *)
(* changed or removed.                                                      *)

\* (old_quantity, new_quantity): a sale of one, a sale of two, a restock
Changes == {<<2, 1>>, <<3, 1>>, <<1, 3>>}

ExternalAppend(ids) ==
    /\ BagCardinality(log) < MaxLog
    /\ \E i \in ids, c \in Changes :
         log' = log (+) SetToBag({[inventory_id |-> i, old_quantity |-> c[1],
                                   new_quantity |-> c[2], changed_at |-> now]})
    /\ UNCHANGED <<products, inventory, nextProductId, nextInventoryId, now,
                   intakeVars, alertVars>>

Tick ==
    /\ \E t \in Clock : t > now /\ now' = t
    /\ UNCHANGED <<products, inventory, log, nextProductId, nextInventoryId,
                   intakeVars, alertVars>>

---------------------------------------------------------------------------
(* get_low_stock_alerts: the queries *)

\* Inventory.quantity < ProductType.low_stock_threshold (line 31)
LowStockOrEqual(quantity, threshold) == quantity <= threshold

LowStock(quantity, threshold) == quantity < threshold

\* lines 25-33: Inventory joined to Warehouse, Product and ProductType, all
\* inner joins, filtered on the company and on the threshold.
LowStockQuery(company_id) ==
    { inv \in inventory :
        \E w \in Warehouses, p \in products, t \in ProductTypes :
            /\ inv.warehouse_id = w.id
            /\ inv.product_id = p.id
            /\ t.id \in p.type_id
            /\ w.company_id = company_id
            /\ LowStock(inv.quantity, t.low_stock_threshold) }

\* .all(): the rows as a list (here by primary key; no order is asked for)
RECURSIVE SeqOf(_)
SeqOf(S) ==
    IF S = {} THEN <<>>
    ELSE LET m == CHOOSE x \in S : \A y \in S : x.id <= y.id
         IN  <<m>> \o SeqOf(S \ {m})

\* The filter of lines 39-41 and of lines 52-54.
IsRecentSale(e, inventory_id, since) ==
    /\ e.inventory_id = inventory_id
    /\ e.changed_at >= since
    /\ e.new_quantity < e.old_quantity

RECURSIVE SumOver(_, _)
SumOver(S, f) ==
    IF S = {} THEN 0
    ELSE LET x == CHOOSE y \in S : TRUE IN f[x] + SumOver(S \ {x}, f)

RecentSales(inventory_id, since) ==
    {e \in BagToSet(log) : IsRecentSale(e, inventory_id, since)}

\* lines 38-42: .count(), every row counted
RecentSalesCount(inventory_id, since) ==
    LET S == RecentSales(inventory_id, since)
    IN  SumOver(S, [e \in S |-> CopiesIn(e, log)])

Abs(x) == IF x < 0 THEN -x ELSE x

\* the sum AVG divides: abs(old_quantity - new_quantity) of every row
RecentSalesUnits(inventory_id, since) ==
    LET S == RecentSales(inventory_id, since)
    IN  SumOver(S, [e \in S |-> CopiesIn(e, log) * Abs(e.old_quantity - e.new_quantity)])

\* What AVG over integers comes back as: a float (SQLite), or a Decimal
\* rounded by the store to a fixed scale (MySQL: four places).
AvgTypes == {"float", "decimal"}

\* lines 49-55: func.avg(...).scalar() or 0.0, as the fraction num/den.  The
\* float is kept exact; the Decimal is units/count rounded half up at the
\* store's scale.
AvgQuery(type, inventory_id, since) ==
    LET n == RecentSalesCount(inventory_id, since)
        u == RecentSalesUnits(inventory_id, since)
        scale == 10000
    IN  IF n = 0 \/ u = 0 THEN [num |-> 0, den |-> 1]
        ELSE IF type = "float" THEN [num |-> u, den |-> n]
        ELSE [num |-> (2 * u * scale + n) \div (2 * n), den |-> scale]

\* lines 57-59: int(inv.quantity / avg_daily_sales), else the sentinel
DaysUntilStockout(quantity, a) ==
    IF a.num > 0 THEN (quantity * a.den) \div a.num ELSE Sentinel

\* thirty_days_ago is computed once (line 19) and both queries use it
CountSince == cutoff

AvgSinceRecomputed == now - WindowDays

AvgSince == cutoff

\* lines 67-76
NoSupplier == [id |-> PyNone, name |-> "No Supplier", contact_email |-> PyNone]

SupplierInfoUnchecked(product) ==
    IF Truthy(product.supplier_id)
      THEN LET i == CHOOSE x \in product.supplier_id : TRUE
           IN  [id |-> Str(i), name |-> "Unknown", contact_email |-> PyNone]
      ELSE NoSupplier

SupplierInfo(product) ==
    LET found == {s \in Suppliers : s.id \in product.supplier_id}
    IN  IF Truthy(product.supplier_id) /\ found # {}
          THEN LET s == CHOOSE x \in found : TRUE
               IN  [id |-> Str(s.id), name |-> s.name,
                    contact_email |-> s.contact_email]
          ELSE NoSupplier

\* lines 63-65 and 79-89
AlertObj(inv, days) ==
    LET product   == CHOOSE p \in products : p.id = inv.product_id
        warehouse == CHOOSE w \in Warehouses : w.id = inv.warehouse_id
        ptype     == CHOOSE t \in ProductTypes : t.id \in product.type_id
    IN  [product_id |-> Str(product.id),
         product_name |-> product.name,
         sku |-> product.sku,
         warehouse_id |-> Str(warehouse.id),
         warehouse_name |-> warehouse.name,
         current_stock |-> inv.quantity,
         threshold |-> ptype.low_stock_threshold,
         days_until_stockout |-> days,
         supplier |-> SupplierInfo(product)]

---------------------------------------------------------------------------
(* get_low_stock_alerts: the steps *)

NoAlertResp == [status |-> 0, total_alerts |-> 0]

\* lines 14-33: resolve the company, fix the window, fetch the candidates.
\* The clock is read once, between two queries that do not read the log.
AlertStart ==
    /\ apc = "idle"
    /\ \E c \in CompanyIds :
         /\ acompany' = c
         /\ IF c \notin Companies
              THEN /\ apc' = "done"
                   /\ aresp' = [status |-> 404, total_alerts |-> 0]
                   /\ UNCHANGED <<cutoff, cands, idx>>
              ELSE LET rows == SeqOf(LowStockQuery(c))
                   IN  /\ cutoff' = now - WindowDays
                       /\ cands' = rows
                       /\ idx' = 1
                       /\ apc' = IF rows = <<>> THEN "done" ELSE "count"
                       /\ aresp' = IF rows = <<>>
                                     THEN [status |-> 200, total_alerts |-> 0]
                                     ELSE aresp
    /\ alerts' = <<>>
    /\ UNCHANGED <<cnt, avg, storeVars, intakeVars>>

\* The loop goes on to the next candidate, or lines 93-96 return.
Advance(list) ==
    /\ idx' = idx + 1
    /\ apc' = IF idx < Len(cands) THEN "count" ELSE "done"
    /\ aresp' = IF idx < Len(cands) THEN aresp
                ELSE [status |-> 200, total_alerts |-> Len(list)]

\* lines 38-46
AlertCount ==
    /\ apc = "count"
    /\ cnt' = RecentSalesCount(cands[idx].id, CountSince)
    /\ IF cnt' = 0
         THEN Advance(alerts)
         ELSE /\ apc' = "avg"
              /\ UNCHANGED <<idx, aresp>>
    /\ UNCHANGED <<acompany, cutoff, cands, avg, alerts, storeVars, intakeVars>>

\* lines 49-55
AlertAvg ==
    /\ apc = "avg"
    /\ \E type \in AvgTypes : avg' = AvgQuery(type, cands[idx].id, AvgSince)
    /\ apc' = "assemble"
    /\ UNCHANGED <<acompany, cutoff, cands, idx, cnt, alerts, aresp,
                   storeVars, intakeVars>>

\* lines 57-90
AlertAssemble ==
    /\ apc = "assemble"
    /\ alerts' = Append(alerts,
                        AlertObj(cands[idx],
                                 DaysUntilStockout(cands[idx].quantity, avg)))
    /\ Advance(alerts')
    /\ UNCHANGED <<acompany, cutoff, cands, cnt, avg, storeVars, intakeVars>>

\* The response is sent; the next request starts afresh.
AlertReturn ==
    /\ apc = "done"
    /\ apc' = "idle"
    /\ acompany' = 0
    /\ cutoff' = 0
    /\ cands' = <<>>
    /\ idx' = 0
    /\ cnt' = 0
    /\ avg' = [num |-> 0, den |-> 1]
    /\ alerts' = <<>>
    /\ aresp' = NoAlertResp
    /\ UNCHANGED <<storeVars, intakeVars>>

AlertStep == AlertStart \/ AlertCount \/ AlertAvg \/ AlertAssemble \/ AlertReturn

InventoryIds == {inv.id : inv \in inventory}

\* The rows some company's candidate query returns: the only rows whose log
\* entries the loop reads.
CandidateIds == {inv.id : inv \in UNION {LowStockQuery(c) : c \in Companies}}

\* The alert engine with writers and the clock running beside it.
NextAlerts ==
    \/ AlertStep
    \/ ExternalAppend(CandidateIds)
    \/ Tick

SpecAlerts == Init /\ [][NextAlerts]_vars

\* The alert engine over a store that stands still while a request runs.
QuietAppend == apc = "idle" /\ ExternalAppend(InventoryIds)

QuietTick == apc = "idle" /\ Tick

NextQuiet ==
    \/ AlertStep
    \/ QuietAppend
    \/ QuietTick

SpecQuiet == Init /\ [][NextQuiet]_vars

---------------------------------------------------------------------------
(* Intake and alerts side by side: one create_product request at a time,    *)
(* writers on the rows it created and on inventory 1, and the alert engine. *)

CrossPayloads ==
    { d \in ValuePayloads :
        /\ d.fields["price"] = "19.99"
        /\ d.fields["warehouse_id"] = "1"
        /\ d.fields["initial_quantity"] \in {"0", "2"} }

CreatedProducts == products \ CatalogProducts

CreatedInventory == inventory \ CatalogInventory

NextCross ==
    \/ Start("r1", CrossPayloads)
    \/ PreCheck("r1")
    \/ Flush("r1")
    \/ Commit("r1")
    \/ AlertStep
    \/ ExternalAppend({inv.id : inv \in CreatedInventory} \cup {1})

SpecCross == Init /\ [][NextCross]_vars

---------------------------------------------------------------------------
(* Properties of create_product *)

Returned(r) == pc[r] = "done"

\* The required fields a payload lacks.
Absent(r) == RequiredFields \ Present(payload[r])

ProductFields == Range(required_product_fields)

InventoryFields == Range(required_inventory_fields)

\* C1: atomicity of createProduct.  In every reachable store state, whatever
\* the interleaving and wherever a store failure struck, every committed
\* Product that create_product made has an Inventory row that create_product
\* made for it, and every such Inventory row has its Product.
C1_Atomicity ==
    /\ \A p \in CreatedProducts : \E i \in CreatedInventory : i.product_id = p.id
    /\ \A i \in CreatedInventory : \E p \in CreatedProducts : p.id = i.product_id

\* A request lost its transaction after its Product was flushed, beside a
\* request that committed.
C1_Witness ==
    \E r \in Reqs : \E o \in Reqs \ {r} :
        /\ Returned(r) /\ pid[r] # 0 /\ resp[r].status = 500
        /\ Returned(o) /\ resp[o].status = 201
        /\ \E p \in CreatedProducts : p.id = pid[o]

\* The request was refused by the store's unique index on the SKU.
LostTheRace(r) ==
    /\ Returned(r)
    /\ \E d \in Dialects : resp[r].detail = UniqueViolationText(d)

SkuUnique == \A p \in products, q \in products : p.sku = q.sku => p = q

LoserRolledBack ==
    \A r \in Reqs :
        LostTheRace(r) =>
            /\ txn[r] = EmptyTxn
            /\ \A p \in products : p.id # pid[r] \/ pid[r] = 0

\* C2: SKU uniqueness under concurrency.  No two committed Products share a
\* SKU, and a request that passed the pre-check and then lost to the store's
\* unique index persists nothing and is answered Conflict (409).
C2_LoserGetsConflict ==
    /\ SkuUnique
    /\ LoserRolledBack
    /\ \A r \in Reqs : LostTheRace(r) => resp[r].status = 409

\* The store changes only in a step that returns 201.
StoreChangesOnlyOnCreated ==
    (products' # products \/ inventory' # inventory) =>
        \E r \in Reqs : ~Returned(r) /\ Returned(r)' /\ resp'[r].status = 201

\* A check that finds the SKU never goes on to write, and answers 409
\* unless the store failed under it.
ExistingSkuStep ==
    \A r \in Reqs :
        (pc[r] = "check" /\ pc'[r] # "check" /\ \E p \in products : p.sku = vals[r].sku) =>
            /\ pc'[r] # "write"
            /\ (Returned(r)' /\ resp'[r].status # 500) => resp'[r].status = 409

\* A failed commit leaves no row of that product, and answers 500 unless the
\* store refused the warehouse reference.
FailedCommitStep ==
    \A r \in Reqs :
        (pc[r] = "commit" /\ Returned(r)' /\ resp'[r].status # 201) =>
            /\ \A p \in products' : p.id # pid[r]
            /\ \A i \in inventory' : i.product_id # pid[r]
            /\ resp'[r].status \in {400, 500}
            /\ resp'[r].status = 400 => ~KnownWarehouse(vals[r].warehouse_id)

\* A payload holding every field, with a negative initial_quantity, is
\* answered 400 before any store access.
NegativeQuantityRefused ==
    \A r \in Reqs :
        (/\ payload[r].kind = "object"
         /\ Absent(r) = {}
         /\ payload[r].fields["initial_quantity"] = "-1") =>
            /\ Returned(r)
            /\ resp[r].status = 400
            /\ pid[r] = 0
            /\ txn[r] = EmptyTxn

C6_AlwaysAResponse ==
    \A r \in Reqs :
        /\ pc[r] # "raised"
        /\ Returned(r) => resp[r].status \in {201, 400, 409, 500}

\* C7 as stated: a payload lacking the fields M is answered 400 with a
\* message that names every field of M, and nothing further runs.
C7_NamesEveryMissingField ==
    \A r \in Reqs :
        (payload[r].kind = "object" /\ Absent(r) # {}) =>
            /\ Returned(r)
            /\ resp[r].status = 400
            /\ Range(resp[r].fields) = Absent(r)

\* C7 as amended: a JSON object lacking the fields M is answered 400; the
\* message names every missing product field when a product field is
\* missing, and otherwise every missing inventory field; no coercion, no
\* quantity rule, no uniqueness check and no write runs.
C7_NamesMissingFieldsOfFirstGroup ==
    \A r \in Reqs :
        (payload[r].kind = "object" /\ Absent(r) # {}) =>
            /\ Returned(r)
            /\ resp[r].status = 400
            /\ Range(resp[r].fields) =
                 IF Absent(r) \cap ProductFields # {}
                   THEN Absent(r) \cap ProductFields
                   ELSE Absent(r) \cap InventoryFields
            /\ resp[r].msg =
                 IF Absent(r) \cap ProductFields # {}
                   THEN "missing_product" ELSE "missing_inventory"
            /\ vals[r] = NoVals
            /\ pid[r] = 0
            /\ txn[r] = EmptyTxn

\* A payload lacks fields of both groups, another only inventory fields.
C7_Witness ==
    \E r \in Reqs : \E o \in Reqs \ {r} :
        /\ Returned(r) /\ Absent(r) = {"name", "price", "initial_quantity"}
        /\ payload[r].kind = "object"
        /\ Returned(o) /\ Absent(o) = {"warehouse_id", "initial_quantity"}
        /\ payload[o].kind = "object"

---------------------------------------------------------------------------
(* Properties of get_low_stock_alerts *)

Answered == apc = "done" /\ aresp.status = 200

\* The in-window sale entries of an inventory, read off the log.
SaleEntries(inv) ==
    { e \in BagToSet(log) :
        /\ e.inventory_id = inv.id
        /\ e.changed_at >= now - WindowDays
        /\ e.new_quantity < e.old_quantity }

\* (a), (b) and (c) of the alert rule.
Qualifies(inv, company) ==
    /\ \E w \in Warehouses : w.id = inv.warehouse_id /\ w.company_id = company
    /\ \E p \in products, t \in ProductTypes :
          /\ p.id = inv.product_id
          /\ t.id \in p.type_id
          /\ inv.quantity < t.low_stock_threshold
    /\ SaleEntries(inv) # {}

AlertsOf(inv) ==
    { i \in DOMAIN alerts :
        /\ alerts[i].product_id = Str(inv.product_id)
        /\ alerts[i].warehouse_id = Str(inv.warehouse_id) }

\* C4: alert membership.  For an existing company the response holds
\* exactly one alert for every Inventory row that is in a warehouse of the
\* company, strictly below the threshold of its product's type, and sold in
\* the window; none for any other row; total_alerts counts them; a company
\* without warehouses gets none.
C4_AlertMembership ==
    Answered =>
        /\ \A inv \in inventory :
              Cardinality(AlertsOf(inv)) = IF Qualifies(inv, acompany) THEN 1 ELSE 0
        /\ Len(alerts) = Cardinality({inv \in inventory : Qualifies(inv, acompany)})
        /\ aresp.total_alerts = Len(alerts)
        /\ (\A w \in Warehouses : w.company_id # acompany) =>
              alerts = <<>> /\ aresp.total_alerts = 0

\* Company 1 is answered one alert while a row at its threshold has a sale
\* in the window and a low row has only a sale before the window.
C4_Witness ==
    /\ Answered /\ acompany = 1 /\ Len(alerts) = 1
    /\ \E e \in BagToSet(log) :
          e.inventory_id = 4 /\ e.new_quantity < e.old_quantity
            /\ e.changed_at >= now - WindowDays
    /\ \E e \in BagToSet(log) :
          e.inventory_id = 2 /\ e.new_quantity < e.old_quantity
            /\ e.changed_at < now - WindowDays

\* n and S of an inventory: the number of its in-window sale entries, each
\* counted, and the units they sold.
SaleCount(inv) ==
    LET S == SaleEntries(inv) IN SumOver(S, [e \in S |-> CopiesIn(e, log)])

SaleUnits(inv) ==
    LET S == SaleEntries(inv)
    IN  SumOver(S, [e \in S |-> CopiesIn(e, log) * (e.old_quantity - e.new_quantity)])

\* C5: stockout estimate.  Every alert's days_until_stockout is
\* floor(current_stock * n / S) over the in-window sale entries of its
\* inventory, each entry counted, and 999 when the average is not positive.
C5_StockoutEstimate ==
    Answered =>
        \A inv \in inventory : \A i \in AlertsOf(inv) :
            alerts[i].days_until_stockout =
                IF SaleUnits(inv) > 0
                  THEN (alerts[i].current_stock * SaleCount(inv)) \div SaleUnits(inv)
                  ELSE Sentinel

\* C8: the sentinel branch is unreachable.  Whenever a candidate passed the
\* count filter, the average of the second query is positive, so no alert
\* carries the sentinel, however writers and the clock interleave with the
\* two queries.
C8_SentinelUnreachable ==
    /\ apc = "assemble" => avg.num > 0
    /\ \A i \in DOMAIN alerts : alerts[i].days_until_stockout # Sentinel

\* A sale was appended between the count query and the average query.
C8_Witness ==
    /\ apc = "assemble"
    /\ avg.den = cnt + 1
    /\ RecentSalesCount(cands[idx].id, cutoff) = cnt + 1

\* C9: a product created by create_product has no type, so no Inventory row
\* of such a product is ever in an alert list, whatever its quantity and its
\* sales.
C9_CreatedNeverAlerted ==
    \A i \in DOMAIN alerts :
        alerts[i].product_id \notin {Str(p.id) : p \in CreatedProducts}

\* Company 1 is answered while a created row with no stock has a sale in the
\* window, beside an alert for a catalog row.
C9_Witness ==
    /\ Answered /\ acompany = 1 /\ Len(alerts) = 1
    /\ \E inv \in CreatedInventory :
          /\ inv.quantity = 0 /\ inv.warehouse_id = 1
          /\ SaleEntries(inv) # {}

ProductOf(alert) == CHOOSE p \in products : Str(p.id) = alert.product_id

Resolves(product) == \E s \in Suppliers : s.id \in product.supplier_id

\* C10: supplier resolution.  An alert carries the supplier's id, name and
\* contact_email exactly when the product's supplier_id is set and has a
\* Supplier row; otherwise it carries the placeholder, and a product whose
\* supplier_id has no row is alerted like any other.
C10_SupplierResolution ==
    /\ \A i \in DOMAIN alerts :
          LET p == ProductOf(alerts[i])
          IN  IF p.supplier_id # {} /\ Resolves(p)
                THEN \E s \in Suppliers :
                        /\ s.id \in p.supplier_id
                        /\ alerts[i].supplier =
                             [id |-> Str(s.id), name |-> s.name,
                              contact_email |-> s.contact_email]
                ELSE alerts[i].supplier = NoSupplier
    /\ Answered =>
          \A inv \in inventory :
              (Qualifies(inv, acompany)
                 /\ \E p \in products :
                       p.id = inv.product_id /\ p.supplier_id # {} /\ ~Resolves(p))
                => AlertsOf(inv) # {}

\* Company 1 is answered an alert with a real supplier and an alert for the
\* product whose supplier has no row.
C10_Witness ==
    /\ Answered /\ acompany = 1 /\ Len(alerts) = 2
    /\ alerts[1].supplier.name = "Acme"
    /\ alerts[2].product_id = Str(3)
    /\ alerts[2].supplier = NoSupplier

=============================================================================
